---- MODULE Spec2Model ----
(***************************************************************************)
(* Model of the sales-tool backend relay (src/index.ts): start-up          *)
(* configuration checks, the GET /token handler, the POST /voice handler   *)
(* with its fire-and-forget CallLog write, and the socket 'objection'      *)
(* handler with its awaited completion call and Objection write.           *)
(*                                                                         *)
(* Strings the code inspects character by character (the To field) are     *)
(* sequences of one-character strings; `undefined` is a value distinct     *)
(* from every such sequence.  The webhook fields are strings or absent,    *)
(* as the provider posts them (form-encoded).                              *)
(***************************************************************************)
EXTENDS Integers, Sequences, FiniteSets, TLC

\* ------------------------------------------------------------------ bounds
MaxCalls == 2        \* POST /voice requests handled in one behaviour
MaxObjections == 2   \* 'objection' events handled in one behaviour
MaxSockets == 2      \* real-time connections ever accepted
MaxRequests == 2     \* requests of both kinds together, when both sides run

\* --------------------------------------------------------------- constants
undefined == <<"undefined">>
null == "\\null"

EnvKeys ==
  {"MONGO_URI", "TWILIO_ACCOUNT_SID", "TWILIO_AUTH_TOKEN", "TWILIO_API_KEY",
   "TWILIO_API_SECRET", "TWILIO_APP_SID", "TWILIO_PHONE_NUMBER", "OPENAI_API_KEY"}

\* The provisioned number the deployment configures (any non-empty string).
TWILIO_PHONE_NUMBER == <<"+", "1", "9">>

ClientPrefix == <<"c", "l", "i", "e", "n", "t", ":">>

FailureText == "Failed to generate suggestion."

\* ------------------------------------------------------------ input domains
ToValues ==
  { undefined,
    <<>>,
    ClientPrefix \o <<"a">>,
    <<"+", "1", "5">>,
    <<"+", "1", "7">> }

CallSids == { <<"C", "A", "1">>, <<"C", "A", "2">>, undefined }

Messages == {"price is too high", ""}

Contents == {"Offer a discount", null}

Sockets == 1..MaxSockets

\* -------------------------------------------------------------------- state
VARIABLES
  env,        \* which environment values are present
  proc,       \* "starting" | "listening" | "exited"
  tokenRes,   \* the responses GET /token has sent
  calls,      \* the POST /voice requests handled, in arrival order
  callLogs,   \* the CallLog collection, in insertion order
  conn,       \* per socket: "none" | "open" | "closed"
  events,     \* the 'objection' events handled, in arrival order
  objections  \* the Objection collection: documents, each with its own _id

vars == <<env, proc, tokenRes, calls, callLogs, conn, events, objections>>

\* ------------------------------------------------------------------ helpers
\* JavaScript truthiness of a webhook field, which is also what the schema's
\* `required` accepts for a String path: not undefined, not the empty string.
Present(s) == s # undefined /\ s # <<>>

\* The same for the opaque strings of the objection path (message, content).
PresentText(t) == t # null /\ t # ""

StartsWith(s, p) == Len(s) >= Len(p) /\ SubSeq(s, 1, Len(p)) = p

Range(q) == {q[i] : i \in DOMAIN q}

\* ------------------------------------------------------------------ startup
AllPresent == [k \in EnvKeys |-> TRUE]

\* The environments considered: complete, or with exactly one value absent.
Environments ==
  {AllPresent} \cup {[AllPresent EXCEPT ![k] = FALSE] : k \in EnvKeys}

\* TRUE when one of the process.exit(1) checks fires.
StartupExits(e) ==
  \/ ~e["MONGO_URI"]
  \/ ~e["TWILIO_ACCOUNT_SID"] \/ ~e["TWILIO_AUTH_TOKEN"] \/ ~e["TWILIO_PHONE_NUMBER"]
  \/ ~e["OPENAI_API_KEY"]

Startup ==
  /\ proc = "starting"
  /\ proc' = IF StartupExits(env) THEN "exited" ELSE "listening"
  /\ UNCHANGED <<env, tokenRes, calls, callLogs, conn, events, objections>>

Init ==
  /\ env \in Environments
  /\ proc = "starting"
  /\ tokenRes = {}
  /\ calls = <<>>
  /\ callLogs = <<>>
  /\ conn = [s \in Sockets |-> "none"]
  /\ events = <<>>
  /\ objections = {}

\* -------------------------------------------------------------- GET /token
\* AccessToken(accountSid, keySid, secret, {identity, ttl}) refuses absent
\* arguments and toJwt() cannot sign without the secret: the handler throws and
\* the framework answers 500.  Otherwise the token carries the fixed identity.
TokenResponse(e) ==
  IF e["TWILIO_ACCOUNT_SID"] /\ e["TWILIO_API_KEY"] /\ e["TWILIO_API_SECRET"]
  THEN [status |-> 200, identity |-> "caller", ttl |-> 3600,
        outgoingApplicationSid |-> e["TWILIO_APP_SID"], incomingAllow |-> TRUE]
  ELSE [status |-> 500, identity |-> "", ttl |-> 0,
        outgoingApplicationSid |-> FALSE, incomingAllow |-> FALSE]

Token ==
  /\ proc = "listening"
  /\ tokenRes' = tokenRes \cup {TokenResponse(env)}
  /\ UNCHANGED <<env, proc, calls, callLogs, conn, events, objections>>

\* ------------------------------------------------------------- POST /voice
InvalidTo(To) == ~Present(To) \/ StartsWith(To, ClientPrefix)

\* Variant: the log records the caller-id instead of the dialled number.
NewCallLogFromNumber(CallSid, To) ==
  [_id |-> CallSid, phoneNumber |-> TWILIO_PHONE_NUMBER, status |-> "initiated",
   duration |-> undefined]

NewCallLog(CallSid, To) ==
  [_id |-> CallSid, phoneNumber |-> To, status |-> "initiated", duration |-> undefined]

\* Schema validation run by save(): _id, phoneNumber and status are required.
CallLogValid(doc) ==
  /\ Present(doc._id)
  /\ Present(doc.phoneNumber)
  /\ doc.status # ""

\* response.dial({callerId: TWILIO_PHONE_NUMBER}, To)
DialDocument(To) == [verb |-> "Dial", callerId |-> TWILIO_PHONE_NUMBER, number |-> To]

\* Variant: a log document that cannot be stored turns into an error status.
VoiceResponseRejecting(To, CallSid) ==
  [status |-> IF Present(CallSid) /\ Present(To) THEN 200 ELSE 500,
   type |-> "text/xml", body |-> DialDocument(To)]

VoiceResponse(To, CallSid) ==
  [status |-> 200, type |-> "text/xml", body |-> DialDocument(To)]

\* Variant: the validation is enforced, an invalid To ends the request early.
HandleVoiceAborting(To, CallSid) ==
  [To |-> To, CallSid |-> CallSid,
   loggedInvalid |-> InvalidTo(To),
   doc |-> [_id |-> CallSid, phoneNumber |-> To, status |-> "initiated", duration |-> undefined],
   save |-> IF InvalidTo(To) THEN "none" ELSE "pending",
   res |-> IF InvalidTo(To)
           THEN [status |-> 400, type |-> "text/xml",
                 body |-> [verb |-> "Reject", callerId |-> TWILIO_PHONE_NUMBER, number |-> To]]
           ELSE [status |-> 200, type |-> "text/xml",
                 body |-> [verb |-> "Dial", callerId |-> TWILIO_PHONE_NUMBER, number |-> To]]]

\* Variant: the handler awaits the save; nothing is sent while it is pending.
HandleVoiceAwaiting(To, CallSid) ==
  [To |-> To, CallSid |-> CallSid,
   loggedInvalid |-> InvalidTo(To),
   doc |-> [_id |-> CallSid, phoneNumber |-> To, status |-> "initiated", duration |-> undefined],
   save |-> "pending",
   res |-> [status |-> 0, type |-> "",
            body |-> [verb |-> "", callerId |-> TWILIO_PHONE_NUMBER, number |-> To]]]

\* The handler, start to finish: validate (log only), build the document, start
\* the save without awaiting it, answer.
HandleVoice(To, CallSid) ==
  [To |-> To, CallSid |-> CallSid,
   loggedInvalid |-> InvalidTo(To),
   doc |-> NewCallLog(CallSid, To),
   save |-> "pending",
   res |-> VoiceResponse(To, CallSid)]

Voice(To, CallSid) ==
  /\ proc = "listening"
  /\ Len(calls) < MaxCalls
  /\ calls' = Append(calls, HandleVoice(To, CallSid))
  /\ UNCHANGED <<env, proc, tokenRes, callLogs, conn, events, objections>>

\* Variant: the store accepts an _id it already holds.
DuplicateKeyIgnored(store, doc) == FALSE

\* save() of a new document is an insert: the store rejects an _id it holds.
DuplicateKey(store, doc) == \E r \in Range(store) : r._id = doc._id

\* Variant: the write replaces what the collection held.
InsertCallLogReplacing(store, doc) == <<doc>>

InsertCallLog(store, doc) == Append(store, doc)

CallLogSaved(i) ==
  /\ i \in DOMAIN calls
  /\ calls[i].save = "pending"
  /\ CallLogValid(calls[i].doc)
  /\ ~DuplicateKey(callLogs, calls[i].doc)
  /\ callLogs' = InsertCallLog(callLogs, calls[i].doc)
  /\ calls' = [calls EXCEPT ![i].save = "saved"]
  /\ UNCHANGED <<env, proc, tokenRes, conn, events, objections>>

\* Validation error, duplicate key, or the store being unreachable: the
\* rejection is caught and logged, nothing else happens.
CallLogSaveFailed(i) ==
  /\ i \in DOMAIN calls
  /\ calls[i].save = "pending"
  /\ calls' = [calls EXCEPT ![i].save = "failed"]
  /\ UNCHANGED <<env, proc, tokenRes, callLogs, conn, events, objections>>

\* ------------------------------------------------------- socket connections
\* io.on('connection'): the server accepts a connection and gives it a socket.
Connect(s) ==
  /\ proc = "listening"
  /\ conn[s] = "none"
  /\ \A t \in Sockets : t < s => conn[t] # "none"
  /\ conn' = [conn EXCEPT ![s] = "open"]
  /\ UNCHANGED <<env, proc, tokenRes, calls, callLogs, events, objections>>

\* Variant: closing the connection abandons its handlers in processing.
DisconnectCancelling(s) ==
  /\ conn[s] = "open"
  /\ conn' = [conn EXCEPT ![s] = "closed"]
  /\ events' = [e \in DOMAIN events |->
                  IF events[e].sock = s /\ events[e].pc \in {"completion", "save"}
                  THEN [events[e] EXCEPT !.pc = "caught", !.suggestion = null]
                  ELSE events[e]]
  /\ UNCHANGED <<env, proc, tokenRes, calls, callLogs, objections>>

\* socket.on('disconnect'): logs, cancels nothing.
Disconnect(s) ==
  /\ conn[s] = "open"
  /\ conn' = [conn EXCEPT ![s] = "closed"]
  /\ UNCHANGED <<env, proc, tokenRes, calls, callLogs, events, objections>>

\* ------------------------------------------------------ socket 'objection'
\* Variant: io.emit, the packet goes to every socket.
EmitBroadcast(ev, payload, c) ==
  [s \in Sockets |-> [sock |-> s, payload |-> payload, delivered |-> c[s] = "open"]]

\* socket.emit('suggestion', payload): one packet, to the handler's own socket;
\* it reaches the client only while that connection is open.
Emit(ev, payload, c) ==
  << [sock |-> ev.sock, payload |-> payload, delivered |-> c[ev.sock] = "open"] >>

\* Entering the handler: the completion request is issued and awaited.
\* pc is the handler's position: awaiting the "completion", awaiting the "save",
\* "done" (left the try block after the emit) or "caught" (left the catch block).
NewEvent(s, m) ==
  [sock |-> s, message |-> m, pc |-> "completion", suggestion |-> null, oid |-> 0,
   completionCalls |-> 1, saveCalls |-> 0, out |-> <<>>]

\* Identifier the driver gives the Objection document the handler of event e
\* constructs: unique per document (each handler constructs at most one).
FreshOid(e) == e

\* Variant: the save is issued but not awaited; the emit follows at once.
OnCompletionUnawaited(ev, content, oid) ==
  [ev EXCEPT !.suggestion = null, !.oid = oid, !.pc = "done", !.saveCalls = @ + 1,
             !.out = @ \o << [sock |-> ev.sock, payload |-> content,
                              delivered |-> conn[ev.sock] = "open"] >>]

\* Variant: the suggestion is emitted before the save is awaited.
OnCompletionEmitFirst(ev, content, oid) ==
  [ev EXCEPT !.suggestion = content, !.oid = oid, !.pc = "save", !.saveCalls = @ + 1,
             !.out = @ \o << [sock |-> ev.sock, payload |-> content,
                              delivered |-> conn[ev.sock] = "open"] >>]

\* The completion resolved: take choices[0].message.content, build the
\* Objection document, issue save() and await it.
OnCompletion(ev, content, oid) ==
  [ev EXCEPT !.suggestion = content, !.oid = oid, !.pc = "save", !.saveCalls = @ + 1]

\* Variant: the catch block only logs.
OnErrorSilent(ev, c) == [ev EXCEPT !.pc = "caught", !.suggestion = null]

\* The catch block: log, emit the fixed failure text, end (the handler's local
\* `suggestion` goes with its frame).
OnError(ev, c) ==
  [ev EXCEPT !.pc = "caught", !.suggestion = null,
             !.out = @ \o Emit(ev, FailureText, c)]

\* save() resolved: emit the generated suggestion, end.
OnSaved(ev, c) ==
  [ev EXCEPT !.pc = "done", !.suggestion = null,
             !.out = @ \o Emit(ev, ev.suggestion, c)]

\* Variant: the two fields of the document are swapped.
ObjectionDocSwapped(ev) ==
  [_id |-> ev.oid, message |-> ev.suggestion, response |-> ev.message]

ObjectionDoc(ev) == [_id |-> ev.oid, message |-> ev.message, response |-> ev.suggestion]

\* Variant: the schema requires nothing.
ObjectionValidLax(doc) == TRUE

\* Schema validation run by save(): message and response are required.
ObjectionValid(doc) == PresentText(doc.message) /\ PresentText(doc.response)

InsertObjection(store, doc) == store \cup {doc}

\* Variant: messages are queued per connection, one in processing at a time.
ObjectionSerialized(s, m) ==
  /\ proc = "listening"
  /\ conn[s] = "open"
  /\ Len(events) < MaxObjections
  /\ \A e \in DOMAIN events :
       events[e].sock = s => events[e].pc \in {"done", "caught"}
  /\ events' = Append(events, NewEvent(s, m))
  /\ UNCHANGED <<env, proc, tokenRes, calls, callLogs, conn, objections>>

Objection(s, m) ==
  /\ proc = "listening"
  /\ conn[s] = "open"
  /\ Len(events) < MaxObjections
  /\ events' = Append(events, NewEvent(s, m))
  /\ UNCHANGED <<env, proc, tokenRes, calls, callLogs, conn, objections>>

CompletionSucceeded(e, content) ==
  /\ e \in DOMAIN events
  /\ events[e].pc = "completion"
  /\ events' = [events EXCEPT ![e] = OnCompletion(@, content, FreshOid(e))]
  /\ UNCHANGED <<env, proc, tokenRes, calls, callLogs, conn, objections>>

\* The request rejects (network, service error), or it resolves with no
\* choices and reading choices[0].message throws: either way the catch runs.
CompletionFailed(e) ==
  /\ e \in DOMAIN events
  /\ events[e].pc = "completion"
  /\ events' = [events EXCEPT ![e] = OnError(@, conn)]
  /\ UNCHANGED <<env, proc, tokenRes, calls, callLogs, conn, objections>>

ObjectionSaved(e) ==
  /\ e \in DOMAIN events
  /\ events[e].pc = "save"
  /\ ObjectionValid(ObjectionDoc(events[e]))
  /\ objections' = InsertObjection(objections, ObjectionDoc(events[e]))
  /\ events' = [events EXCEPT ![e] = OnSaved(@, conn)]
  /\ UNCHANGED <<env, proc, tokenRes, calls, callLogs, conn>>

ObjectionSaveFailed(e) ==
  /\ e \in DOMAIN events
  /\ events[e].pc = "save"
  /\ events' = [events EXCEPT ![e] = OnError(@, conn)]
  /\ UNCHANGED <<env, proc, tokenRes, calls, callLogs, conn, objections>>

\* ------------------------------------------------------------ specifications
Calls == 1..MaxCalls
Events == 1..MaxObjections

RouterNext ==
  \/ Startup
  \/ Token
  \/ \E To \in ToValues, CallSid \in CallSids : Voice(To, CallSid)
  \/ \E i \in Calls : CallLogSaved(i)
  \/ \E i \in Calls : CallLogSaveFailed(i)

BridgeNext ==
  \/ Startup
  \/ \E s \in Sockets : Connect(s)
  \/ \E s \in Sockets : Disconnect(s)
  \/ \E s \in Sockets, m \in Messages : Objection(s, m)
  \/ \E e \in Events, content \in Contents : CompletionSucceeded(e, content)
  \/ \E e \in Events : CompletionFailed(e)
  \/ \E e \in Events : ObjectionSaved(e)
  \/ \E e \in Events : ObjectionSaveFailed(e)

Next == RouterNext \/ BridgeNext

\* The whole server.
Spec == Init /\ [][Next]_vars

\* The HTTP side alone (no real-time connection is ever opened).
RouterSpec == Init /\ [][RouterNext]_vars

\* The real-time side alone, in a completely configured process (no HTTP
\* request arrives; nothing on this side reads the environment after startup).
BridgeInit ==
  /\ env = AllPresent
  /\ proc = "starting"
  /\ tokenRes = {}
  /\ calls = <<>>
  /\ callLogs = <<>>
  /\ conn = [s \in Sockets |-> "none"]
  /\ events = <<>>
  /\ objections = {}

BridgeSpec == BridgeInit /\ [][BridgeNext]_vars

\* Both sides together in a completely configured process, for a bounded
\* number of POST /voice requests and 'objection' events in total.
Budget == Len(calls) + Len(events) < MaxRequests

ServerNext ==
  \/ Startup
  \/ Token
  \/ Budget /\ \E To \in ToValues, CallSid \in CallSids : Voice(To, CallSid)
  \/ \E i \in Calls : CallLogSaved(i)
  \/ \E i \in Calls : CallLogSaveFailed(i)
  \/ \E s \in Sockets : Connect(s)
  \/ \E s \in Sockets : Disconnect(s)
  \/ Budget /\ \E s \in Sockets, m \in Messages : Objection(s, m)
  \/ \E e \in Events, content \in Contents : CompletionSucceeded(e, content)
  \/ \E e \in Events : CompletionFailed(e)
  \/ \E e \in Events : ObjectionSaved(e)
  \/ \E e \in Events : ObjectionSaveFailed(e)

ServerSpec == BridgeInit /\ [][ServerNext]_vars

\* Every store write that was issued eventually resolves or rejects.
RouterFairSpec ==
  RouterSpec /\ \A i \in Calls : WF_vars(CallLogSaved(i) \/ CallLogSaveFailed(i))

\* The call handler e awaits (completion request or store write) returns.
Returns(e) ==
  \/ \E content \in Contents : CompletionSucceeded(e, content)
  \/ CompletionFailed(e)
  \/ ObjectionSaved(e)
  \/ ObjectionSaveFailed(e)

\* Every completion request and every store write eventually resolves or rejects.
BridgeFairSpec ==
  /\ BridgeSpec
  /\ \A e \in Events : WF_vars(Returns(e))

\* ==================================================================== claims
CallLogsWithId(id) == {k \in DOMAIN callLogs : callLogs[k]._id = id}

SameCall(i, j) ==
  /\ i \in DOMAIN calls /\ j \in DOMAIN calls /\ i < j
  /\ Present(calls[i].CallSid)
  /\ calls[i].CallSid = calls[j].CallSid

FreshCallSid(i) == \A j \in DOMAIN calls : j < i => calls[j].CallSid # calls[i].CallSid

ValidRouting(i) == i \in DOMAIN calls /\ ~InvalidTo(calls[i].To) /\ FreshCallSid(i)

Logged(i) ==
  \E k \in DOMAIN callLogs :
    /\ callLogs[k]._id = calls[i].CallSid
    /\ callLogs[k].phoneNumber = calls[i].To
    /\ callLogs[k].status = "initiated"

\* C2: a POST /voice with a valid To and an unused CallSid is answered with a
\* document dialling exactly that To from the provisioned number, and unless the
\* write fails a CallLog (CallSid, To, "initiated") eventually exists.
C2_RoutedAndLogged ==
  /\ [](\A i \in Calls : ValidRouting(i) =>
          /\ calls[i].res.body.verb = "Dial"
          /\ calls[i].res.body.number = calls[i].To
          /\ calls[i].res.body.callerId = TWILIO_PHONE_NUMBER)
  /\ \A i \in Calls :
       ValidRouting(i) ~> (i \in DOMAIN calls /\ (calls[i].save = "failed" \/ Logged(i)))

C2_Witness ==
  \E i \in Calls : ValidRouting(i) /\ calls[i].save = "saved" /\ Logged(i)

\* C7: every POST /voice is answered 200 with the dial document for its To and
\* the provisioned caller-id, whether its write is stored, rejected or pending.
C7_FailureNotSurfaced ==
  \A i \in DOMAIN calls :
    /\ calls[i].save \in {"pending", "saved", "failed"}
    /\ calls[i].res = [status |-> 200, type |-> "text/xml",
                       body |-> [verb |-> "Dial", callerId |-> TWILIO_PHONE_NUMBER,
                                 number |-> calls[i].To]]

\* A request whose write was rejected, next to one whose write is still pending.
C7_Witness ==
  \E i \in Calls, j \in Calls :
    /\ i \in DOMAIN calls /\ j \in DOMAIN calls
    /\ calls[i].save = "failed" /\ calls[i].res.status = 200
    /\ calls[j].save = "pending" /\ calls[j].res.status = 200

\* C8, as stated: with any required configuration value absent the process
\* never listens, so no request is ever handled.
C8_MissingConfigExits ==
  (\E k \in EnvKeys : ~env[k]) => (proc # "listening" /\ tokenRes = {} /\ calls = <<>>)

\* C9: a POST /voice whose To is absent or client-prefixed is logged as invalid,
\* its CallLog write for that CallSid is still issued, and the answer is still
\* 200 with a dial document whose target is the To as supplied.
C9_InvalidToNotAborted ==
  \A i \in DOMAIN calls :
    InvalidTo(calls[i].To) =>
      /\ calls[i].loggedInvalid
      /\ calls[i].save \in {"pending", "saved", "failed"}
      /\ calls[i].doc._id = calls[i].CallSid
      /\ calls[i].res.status = 200
      /\ calls[i].res.body.verb = "Dial"
      /\ calls[i].res.body.number = calls[i].To

\* A client-prefixed To whose CallLog was stored, after an absent To.
C9_Witness ==
  \E i \in Calls, j \in Calls :
    /\ i \in DOMAIN calls /\ j \in DOMAIN calls
    /\ calls[i].To = undefined /\ calls[i].res.status = 200
    /\ StartsWith(calls[j].To, ClientPrefix) /\ calls[j].save = "saved"
    /\ \E k \in DOMAIN callLogs : callLogs[k].phoneNumber = calls[j].To

\* C10, as stated: GET /token changes neither collection nor any connection and
\* every answer is a token for the fixed identity, valid for one hour.
C10_TokenPure ==
  [][Token => /\ UNCHANGED <<calls, callLogs, conn, events, objections>>
              /\ \A r \in tokenRes' :
                   r.status = 200 /\ r.identity = "caller" /\ r.ttl = 3600]_vars

\* ------------------------------------------------------------ bridge claims
\* The completion call of event e resolved (a document was then constructed).
CompletionOk(e) == e \in DOMAIN events /\ events[e].oid # 0

\* The completion call of event e rejected.
CompletionErr(e) == e \in DOMAIN events /\ events[e].pc = "caught" /\ events[e].oid = 0

Finished(e) == e \in DOMAIN events /\ events[e].pc \in {"done", "caught"}

RecordsOf(e) == {r \in objections : r._id = events[e].oid}

Payloads(e) == [k \in DOMAIN events[e].out |-> events[e].out[k].payload]

StoredAndEmitted(e) ==
  /\ Cardinality(RecordsOf(e)) = 1
  /\ \A r \in RecordsOf(e) :
       /\ r.message = events[e].message
       /\ Payloads(e) = <<r.response>>

\* C3, as stated: every objection event whose completion call returned
\* successfully has, once handled, exactly one Objection record with its message,
\* and the one suggestion emitted for it is that record's response.
C3_SuccessStored ==
  \A e \in Events : (CompletionOk(e) /\ Finished(e)) => StoredAndEmitted(e)

\* C3, amended: the same for every event whose completion call returned
\* successfully and whose save was stored; no event ever has two records.
C3_SavedStored ==
  /\ \A e \in Events :
       (CompletionOk(e) /\ events[e].pc = "done") => StoredAndEmitted(e)
  /\ \A e \in Events : CompletionOk(e) => Cardinality(RecordsOf(e)) <= 1

\* Two events with the same message, both stored and answered.
C3_Witness ==
  \E e \in Events, f \in Events :
    /\ e < f /\ f \in DOMAIN events
    /\ events[e].message = events[f].message
    /\ events[e].pc = "done" /\ events[f].pc = "done"
    /\ StoredAndEmitted(e) /\ StoredAndEmitted(f)

\* C4: when the completion call of an event fails, the one suggestion emitted
\* for it is the failure text, and the step leaves the Objection collection as
\* it was: every record belongs to an event whose completion and save succeeded.
C4_CompletionFailure ==
  /\ [](\A e \in Events :
          CompletionErr(e) =>
            /\ Payloads(e) = <<FailureText>>
            /\ events[e].out[1].sock = events[e].sock)
  /\ [](\A r \in objections :
          \E e \in DOMAIN events : events[e].pc = "done" /\ events[e].oid = r._id)
  /\ [][\A e \in DOMAIN events :
          (events[e].pc = "completion" /\ events'[e].pc = "caught")
            => objections' = objections]_vars

\* A failed completion answered with the failure text while another event's
\* record sits in the store.
C4_Witness ==
  \E e \in Events :
    /\ CompletionErr(e)
    /\ events[e].out[1].delivered
    /\ Cardinality(objections) = 1

\* C5: when the completion succeeds and the save fails, the originating socket
\* gets the failure text and nothing else for that event, and the handler made
\* one completion call and one save call.
C5_SaveFailure ==
  \A e \in Events :
    (CompletionOk(e) /\ events[e].pc \in {"save", "caught"}) =>
      /\ events[e].completionCalls = 1
      /\ events[e].saveCalls = 1
      /\ events[e].pc = "save" => events[e].out = <<>>
      /\ events[e].pc = "caught" =>
           /\ Payloads(e) = <<FailureText>>
           /\ events[e].out[1].sock = events[e].sock

\* A completion that succeeded, a save that was rejected; the failure text was
\* delivered.
C5_Witness ==
  \E e \in Events :
    /\ CompletionOk(e) /\ events[e].pc = "caught"
    /\ PresentText(events[e].message)
    /\ RecordsOf(e) = {}
    /\ events[e].out[1].delivered

Answered(e) ==
  /\ Finished(e)
  /\ Len(events[e].out) = 1
  /\ events[e].out[1].sock = events[e].sock

\* C6: every objection event is eventually answered by exactly one suggestion,
\* delivered on its own connection unless that connection closed, and no
\* suggestion for it ever goes to another connection.
C6_OneSuggestion ==
  /\ \A e \in Events :
       (e \in DOMAIN events) ~>
         (Answered(e) /\ (events[e].out[1].delivered \/ conn[events[e].sock] = "closed"))
  /\ [](\A e \in DOMAIN events :
          /\ Len(events[e].out) <= 1
          /\ \A k \in DOMAIN events[e].out : events[e].out[k].sock = events[e].sock)

\* Two connections open, an event of the first answered and delivered.
C6_Witness ==
  \E e \in Events :
    /\ Answered(e) /\ events[e].out[1].delivered
    /\ \A s \in Sockets : s = events[e].sock \/ conn[s] = "open"
    /\ \E s \in Sockets : s # events[e].sock

\* C11: whenever a generated suggestion (anything but the failure text) has
\* been emitted for an objection event, the Objection record with that event's
\* message and that suggestion as response is already in the store.
C11_PersistBeforeEmit ==
  \A e \in DOMAIN events :
    \A k \in DOMAIN events[e].out :
      events[e].out[k].payload # FailureText =>
        \E r \in objections :
          /\ r._id = events[e].oid
          /\ r.message = events[e].message
          /\ r.response = events[e].out[k].payload

\* A generated suggestion was delivered; its record is in the store.
C11_Witness ==
  \E e \in DOMAIN events :
    /\ events[e].out # <<>>
    /\ events[e].out[1].payload # FailureText
    /\ events[e].out[1].delivered
    /\ \E r \in objections : r.response = events[e].out[1].payload

\* C12: while the CallLog write of a request is outstanding its routing
\* document has already been returned, and from there the write can still be
\* rejected, or stored when the document is storable and its id unused.
C12_ResponseBeforeWrite ==
  \A i \in Calls :
    (i \in DOMAIN calls /\ calls[i].save = "pending") =>
      /\ calls[i].res.status = 200
      /\ calls[i].res.body = DialDocument(calls[i].To)
      /\ ENABLED CallLogSaveFailed(i)
      /\ (CallLogValid(calls[i].doc) /\ ~DuplicateKey(callLogs, calls[i].doc))
           => ENABLED CallLogSaved(i)

\* The document for a CallSid was returned, its write is outstanding and no
\* CallLog with that id exists yet.
C12_Witness ==
  \E i \in DOMAIN calls :
    /\ calls[i].res.status = 200
    /\ calls[i].save = "pending"
    /\ CallLogValid(calls[i].doc)
    /\ CallLogsWithId(calls[i].CallSid) = {}

InFlight(e) == e \in DOMAIN events /\ events[e].pc \in {"completion", "save"}

\* C13: an objection message is accepted on an open connection whatever else
\* is in processing, and the awaited call of every message in processing can
\* return whatever the state of the other messages: nothing is queued behind an
\* earlier message, on the same connection or on another.
C13_NotSerialized ==
  /\ \A s \in Sockets, m \in Messages :
       (proc = "listening" /\ conn[s] = "open" /\ Len(events) < MaxObjections)
         => ENABLED Objection(s, m)
  /\ \A e \in Events :
       (e \in DOMAIN events /\ events[e].pc = "completion") =>
         /\ ENABLED CompletionFailed(e)
         /\ \A content \in Contents : ENABLED CompletionSucceeded(e, content)
  /\ \A e \in Events :
       (e \in DOMAIN events /\ events[e].pc = "save") =>
         /\ ENABLED ObjectionSaveFailed(e)
         /\ ObjectionValid(ObjectionDoc(events[e])) => ENABLED ObjectionSaved(e)

\* Two messages of one connection: the later one was answered with a generated
\* suggestion while the completion call of the earlier one is still outstanding.
C13_Witness ==
  \E e \in Events, f \in Events :
    /\ e < f /\ f \in DOMAIN events
    /\ events[e].sock = events[f].sock
    /\ events[e].pc = "completion"
    /\ events[f].pc = "done"
    /\ events[f].out[1].delivered

\* The connection of event e closed while its completion call is outstanding.
ClosedDuringCompletion(e) ==
  /\ e \in DOMAIN events
  /\ events[e].pc = "completion"
  /\ conn[events[e].sock] = "closed"

\* The save of event e was issued and rejected.
SaveRejected(e) == e \in DOMAIN events /\ events[e].pc = "caught" /\ events[e].oid # 0

Stored(e) ==
  /\ e \in DOMAIN events
  /\ \E r \in objections : r._id = events[e].oid /\ r.message = events[e].message

NoStraySuggestion ==
  \A e \in DOMAIN events :
    \A k \in DOMAIN events[e].out : events[e].out[k].sock = events[e].sock

\* C14, as stated: when a connection closes while the completion call of one of
\* its messages is outstanding and that call then succeeds, the Objection record
\* of the message is persisted; no suggestion for it goes to another connection.
C14_StillPersisted ==
  /\ \A e \in Events : ClosedDuringCompletion(e) ~> (CompletionErr(e) \/ Stored(e))
  /\ []NoStraySuggestion

\* C14, amended: closing a connection changes no handler and no record; when it
\* closes while a completion call is outstanding and that call then succeeds,
\* the save is still issued and, unless the save fails, the Objection record is
\* persisted; no suggestion for the message goes to another connection.
C14_NoCancellation ==
  /\ \A e \in Events :
       ClosedDuringCompletion(e) ~> (CompletionErr(e) \/ SaveRejected(e) \/ Stored(e))
  /\ []NoStraySuggestion
  /\ [][(\E s \in Sockets : conn[s] = "open" /\ conn'[s] = "closed")
          => UNCHANGED <<events, objections>>]_vars

\* The record of a message is in the store although its connection was closed
\* before the suggestion could be delivered.
C14_Witness ==
  \E e \in Events :
    /\ Stored(e)
    /\ events[e].pc = "done"
    /\ conn[events[e].sock] = "closed"
    /\ ~events[e].out[1].delivered

\* C15: every stored CallLog has status "initiated" and no duration, and no
\* step of the server (token, voice, objection, connect, disconnect, or a
\* call's return) changes or removes a CallLog or Objection record once stored.
C15_CreateOnly ==
  /\ [](\A k \in DOMAIN callLogs :
          callLogs[k].status = "initiated" /\ callLogs[k].duration = undefined)
  /\ [][/\ Range(callLogs) \subseteq Range(callLogs')
        /\ Len(callLogs') >= Len(callLogs)
        /\ objections \subseteq objections']_vars

\* A CallLog and an Objection are stored; a token was issued and a connection
\* closed since the server started.
C15_Witness ==
  /\ callLogs # <<>>
  /\ objections # {}
  /\ tokenRes # {}
  /\ \E s \in Sockets : conn[s] = "closed"
  /\ \A i \in DOMAIN calls : calls[i].save # "pending"
  /\ \A e \in DOMAIN events : events[e].pc = "done"

\* C16: the schemas' required fields gate persistence.  No stored Objection has
\* an empty or null message or response; an event with an empty message, or
\* whose completion returned null content, can only end in the catch block,
\* with the failure text and no record.  No stored CallLog lacks its id or its
\* number; a POST /voice without To or without CallSid stores nothing and is
\* still answered with the dial document.
C16_RequiredFieldsGate ==
  /\ \A r \in objections : PresentText(r.message) /\ PresentText(r.response)
  /\ \A e \in Events :
       (e \in DOMAIN events /\ events[e].message = "") =>
         /\ events[e].pc # "done"
         /\ RecordsOf(e) = {}
  /\ \A e \in Events :
       (/\ e \in DOMAIN events
        /\ events[e].pc = "save"
        /\ ~(PresentText(events[e].message) /\ PresentText(events[e].suggestion))) =>
         /\ ~ENABLED ObjectionSaved(e)
         /\ ENABLED ObjectionSaveFailed(e)
  /\ \A e \in Events :
       (e \in DOMAIN events /\ events[e].pc = "caught") =>
         /\ \A r \in objections : r._id # e
         /\ Payloads(e) = <<FailureText>>
  /\ \A k \in DOMAIN callLogs : Present(callLogs[k]._id) /\ Present(callLogs[k].phoneNumber)
  /\ \A i \in DOMAIN calls :
       (~Present(calls[i].To) \/ ~Present(calls[i].CallSid)) =>
         /\ calls[i].save # "saved"
         /\ \A k \in DOMAIN callLogs :
              ~(callLogs[k]._id = calls[i].CallSid /\ callLogs[k].phoneNumber = calls[i].To)
         /\ calls[i].res.status = 200
         /\ calls[i].res.body = DialDocument(calls[i].To)

\* An objection with an empty message was answered with the failure text after
\* its completion succeeded, and a POST /voice without To had its write rejected.
C16_Witness ==
  /\ \E e \in DOMAIN events :
       /\ events[e].message = ""
       /\ SaveRejected(e)
       /\ events[e].out[1].delivered
  /\ \E i \in DOMAIN calls :
       /\ calls[i].To = undefined
       /\ calls[i].save = "failed"
       /\ calls[i].res.status = 200

====
